---- MODULE Spec2Model ----
(***************************************************************************)
(* Policy evaluation on a finite MDP: state enumeration, the policy-induced*)
(* chain (P, r), exact and iterative policy evaluation, the value-free     *)
(* graph policy MyPolicy, and the orchestrator run.                        *)
(*                                                                         *)
(* A client makes one call to one public function (call.fn) with inputs    *)
(* drawn from bounded families; the actions are the steps of that call.    *)
(* Probabilities and values are exact rationals [n, d] in lowest terms;    *)
(* the tolerance 1e-8 is 1/TolInv.                                         *)
(***************************************************************************)
EXTENDS Integers, Sequences, FiniteSets

VARIABLES
    call,     \* the call made: the function and its arguments
    pc,       \* the position in the running function
    cont,     \* where enumerate_states returns to
    seen, out, stk,                \* enumerate_states' locals
    _states, _preds, _dist, q, _choice, \* MyPolicy's fields, the search queue
    states, i, P, r,               \* the chain builder's locals
    v, k, delta,                   \* the evaluators' locals
    result    \* what the call returned or raised, once it has ended

vars == <<call, pc, cont, seen, out, stk, _states, _preds, _dist, q, _choice,
          states, i, P, r, v, k, delta, result>>

enumVars == <<seen, out, stk>>

policyVars == <<_states, _preds, _dist, q, _choice>>

chainVars == <<states, i, P, r>>

evalVars == <<v, k, delta>>

------------------------------------------------------------------------------
(* Actions and states of the environment *)

ABSORB == "ABSORB"
UP == "UP"
RIGHT == "RIGHT"
DOWN == "DOWN"
LEFT == "LEFT"

\* the canonical action order of MyPolicy._build, step 2
CanonicalOrder == <<UP, RIGHT, DOWN, LEFT>>

MoveSet == {UP, RIGHT, DOWN, LEFT}

\* 1 / 1e-8, the tolerance of build_policy_Pr
TolInv == 100000000

\* a state is a pair (position, tag), as ((i, j), ch) in the lake; the
\* absorbing state is (ABSORB, ABSORB)
AbsorbingState == <<ABSORB, ABSORB>>

StartState == <<"c0", "S">>

Cells == {<<"c0", "S">>, <<"c1", "F">>}

Hole == <<"h", "H">>

Goal == <<"g", "G">>

TerminalCells == {Hole, Goal}

AllStates == Cells \cup TerminalCells \cup {AbsorbingState}

Range(f) == {f[x] : x \in DOMAIN f}

------------------------------------------------------------------------------
(* Exact arithmetic: a float is a rational [n, d], d > 0, in lowest terms *)

Abs(x) == IF x < 0 THEN -x ELSE x

RECURSIVE GCD(_, _)
GCD(a, b) == IF b = 0 THEN Abs(a) ELSE GCD(b, a % b)

Rat(n, d) ==
    LET g == GCD(n, d)
        sgn == IF d < 0 THEN -1 ELSE 1
    IN  [n |-> sgn * (n \div g), d |-> sgn * (d \div g)]

Zero == [n |-> 0, d |-> 1]

One == [n |-> 1, d |-> 1]

RAdd(x, y) ==
    LET g == GCD(x.d, y.d)
    IN  Rat(x.n * (y.d \div g) + y.n * (x.d \div g), (x.d \div g) * y.d)

RNeg(x) == [n |-> -x.n, d |-> x.d]

RSub(x, y) == RAdd(x, RNeg(y))

RMul(x, y) ==
    LET g1 == GCD(x.n, y.d)
        g2 == GCD(y.n, x.d)
    IN  Rat((x.n \div g1) * (y.n \div g2), (x.d \div g2) * (y.d \div g1))

\* x / y, y # 0
RDiv(x, y) == RMul(x, Rat(y.d, y.n))

RAbs(x) == [n |-> Abs(x.n), d |-> x.d]

RLess(x, y) == x.n * y.d < y.n * x.d

\* x > 1 / m for a whole m: x.n * m > x.d, without forming the product
RGreaterInv(x, m) == x.n > x.d \div m

RECURSIVE RSum(_)
RSum(xs) == IF xs = <<>> THEN Zero ELSE RAdd(Head(xs), RSum(Tail(xs)))

RMax(x, y) == IF RLess(x, y) THEN y ELSE x

------------------------------------------------------------------------------
(* The family of environments *)

\* where a movement action may lead
Targets == Cells \cup TerminalCells

\* the distributions a (cell, action) pair may report: none (a dead action),
\* one sure successor, a tie, and a successor listed twice
DistMenu ==
    {<<>>}
    \cup {<< <<t, One>> >> : t \in Targets}
    \cup {<< <<Hole, Rat(1, 2)>>, <<Goal, Rat(1, 2)>> >>,
          << <<Hole, Rat(3, 10)>>, <<Goal, Rat(4, 10)>>, <<Hole, Rat(3, 10)>> >>}

\* distributions that do not sum to 1: a partial one, one off by exactly the
\* tolerance, one off by twice the tolerance
OffMenu ==
    {<< <<Goal, Rat(1, 2)>> >>,
     << <<Goal, Rat(1, 4)>>, <<Hole, Rat(1, 2)>> >>,
     << <<Goal, Rat(TolInv + 1, TolInv)>> >>,
     << <<Goal, Rat(1, 2)>>, <<Hole, Rat(TolInv + 4, 2 * TolInv)>> >>}

\* the legal actions a non-terminal cell may offer, in the order reported
ActMenu == {<<RIGHT>>, <<UP>>, <<UP, RIGHT>>}

\* a cell's legal actions and the distribution of each; an action that is
\* not legal has no successor
CellConfigs(actMenu, distMenu) ==
    UNION {{[acts |-> as, tr |-> f] :
              f \in {g \in [MoveSet -> distMenu \cup {<<>>}] :
                       \A m \in MoveSet : m \notin Range(as) => g[m] = <<>>}}
           : as \in actMenu}

\* an environment: each cell's configuration, where a terminal cell's absorb
\* action leads, and the reward of the hole
Mdps(configs, absorbTo, holeRewards) ==
    {[cell |-> c, absorb_to |-> t, hole_reward |-> h] :
       c \in [Cells -> configs], t \in absorbTo, h \in holeRewards}

PolicyMdps == Mdps(CellConfigs(ActMenu, DistMenu), {"absorbing"}, {0})

ChainMdps ==
    {m \in Mdps(CellConfigs({<<UP, RIGHT>>}, DistMenu \cup OffMenu),
                {"absorbing", "self"}, {0}) :
       /\ m.cell[<<"c1", "F">>].tr[UP] = << <<Goal, One>> >>
       /\ m.cell[<<"c1", "F">>].tr[RIGHT] \in OffMenu \cup {<<>>}}

RunMdps == Mdps(CellConfigs({<<RIGHT>>}, DistMenu), {"absorbing", "self"}, {0, -1})

start_state(mdp) == StartState

actions(mdp, s) ==
    IF s \in Cells THEN mdp.cell[s].acts ELSE <<ABSORB>>

transition(mdp, s, a) ==
    IF s \in Cells
    THEN (IF a \in MoveSet THEN mdp.cell[s].tr[a] ELSE <<>>)
    ELSE IF a # ABSORB THEN <<>>
    ELSE IF s \in TerminalCells /\ mdp.absorb_to = "self"
         THEN << <<s, One>> >>
         ELSE << <<AbsorbingState, One>> >>

reward(mdp, s) ==
    IF s = Goal THEN 1 ELSE IF s = Hole THEN mdp.hole_reward ELSE 0

------------------------------------------------------------------------------
(* enumerate_states *)

RECURSIVE Flatten(_, _, _)
\* the successors of s in the order the two for-loops visit them
Flatten(mdp, s, acts) ==
    IF acts = <<>> THEN <<>>
    ELSE transition(mdp, s, Head(acts)) \o Flatten(mdp, s, Tail(acts))

RECURSIVE DiscoverNoPush(_, _)
\* Discover, forgetting to push a new state on the stack
DiscoverNoPush(succs, st) ==
    IF succs = <<>> THEN st
    ELSE LET ns == Head(succs)[1]
         IN  IF ns \notin st.seen
             THEN DiscoverNoPush(Tail(succs),
                                 [seen |-> st.seen \cup {ns},
                                  out |-> Append(st.out, ns),
                                  stk |-> st.stk])
             ELSE DiscoverNoPush(Tail(succs), st)

RECURSIVE Discover(_, _)
\* the loop body: every successor not seen yet is added to seen, out, stk
Discover(succs, st) ==
    IF succs = <<>> THEN st
    ELSE LET ns == Head(succs)[1]
         IN  IF ns \notin st.seen
             THEN Discover(Tail(succs),
                           [seen |-> st.seen \cup {ns},
                            out |-> Append(st.out, ns),
                            stk |-> Append(st.stk, ns)])
             ELSE Discover(Tail(succs), st)

EnumBegin ==
    /\ pc = "enum_begin"
    /\ seen' = {start_state(call.mdp)}
    /\ out' = <<start_state(call.mdp)>>
    /\ stk' = <<start_state(call.mdp)>>
    /\ pc' = "enum_loop"
    /\ UNCHANGED <<call, cont, policyVars, chainVars, evalVars, result>>

EnumStep ==
    /\ pc = "enum_loop"
    /\ stk # <<>>
    /\ LET s == stk[Len(stk)]
           st == Discover(Flatten(call.mdp, s, actions(call.mdp, s)),
                          [seen |-> seen, out |-> out,
                           stk |-> SubSeq(stk, 1, Len(stk) - 1)])
       IN  /\ seen' = st.seen
           /\ out' = st.out
           /\ stk' = st.stk
    /\ UNCHANGED <<call, pc, cont, policyVars, chainVars, evalVars, result>>

\* return out, to the client or to the caller inside MyPolicy or run
EnumReturn ==
    /\ pc = "enum_loop"
    /\ stk = <<>>
    /\ pc' = cont
    /\ result' = IF call.fn = "enumerate_states"
                 THEN [kind |-> "return", states |-> out] ELSE result
    /\ UNCHANGED <<call, cont, enumVars, policyVars, chainVars, evalVars>>

------------------------------------------------------------------------------
(* MyPolicy *)

\* float("inf"): above every hop count
INF == 1000

\* None
NoSuccessor == <<>>

\* the default tie_break of MyPolicy.__init__
DefaultTieBreak == <<RIGHT, DOWN, LEFT, UP>>

TieBreaks ==
    {DefaultTieBreak, <<UP, RIGHT, DOWN, LEFT>>, <<DOWN, UP, RIGHT, LEFT>>}

IsTerminal(mdp, s) == actions(mdp, s) = <<ABSORB>>

RECURSIVE ArgMax(_, _, _)
\* the scan of dist[1:]: a strictly larger probability replaces the best
ArgMax(rest, best_ns, best_p) ==
    IF rest = <<>> THEN best_ns
    ELSE IF RLess(best_p, Head(rest)[2])
         THEN ArgMax(Tail(rest), Head(rest)[1], Head(rest)[2])
         ELSE ArgMax(Tail(rest), best_ns, best_p)

_most_likely_successor(mdp, s, a) ==
    LET d == transition(mdp, s, a)
    IN  IF d = <<>> THEN NoSuccessor
        ELSE ArgMax(Tail(d), d[1][1], d[1][2])

RECURSIVE EdgesOf(_, _, _)
\* the (successor, (s, a)) edges of s, in the canonical action order
EdgesOf(mdp, s, as) ==
    IF as = <<>> THEN <<>>
    ELSE LET a == Head(as)
             ns == _most_likely_successor(mdp, s, a)
         IN  (IF a \in Range(actions(mdp, s)) /\ ns # NoSuccessor
              THEN << <<ns, <<s, a>> >> >>
              ELSE <<>>)
             \o EdgesOf(mdp, s, Tail(as))

RECURSIVE AllEdges(_, _)
AllEdges(mdp, ss) ==
    IF ss = <<>> THEN <<>>
    ELSE (IF IsTerminal(mdp, Head(ss)) THEN <<>>
          ELSE EdgesOf(mdp, Head(ss), CanonicalOrder))
         \o AllEdges(mdp, Tail(ss))

RECURSIVE AddEdges(_, _)
\* self._preds.setdefault(ns, []).append((s, a)) for every edge in turn
AddEdges(es, pr) ==
    IF es = <<>> THEN pr
    ELSE LET ns == Head(es)[1]
             old == IF ns \in DOMAIN pr THEN pr[ns] ELSE <<>>
         IN  AddEdges(Tail(es),
                      [x \in DOMAIN pr \cup {ns} |->
                         IF x = ns THEN Append(old, Head(es)[2]) ELSE pr[x]])

\* IsSeed, without the test for the goal tag
IsSeedAbsorbingOnly(s) ==
    IF Len(s) >= 1 /\ s[1] = ABSORB THEN TRUE
    ELSE IF Len(s) < 2 THEN FALSE
    ELSE s[2] = ABSORB

\* the seed test of step 3; indexing a state too short to index is skipped
IsSeed(s) ==
    IF Len(s) >= 1 /\ s[1] = ABSORB THEN TRUE
    ELSE IF Len(s) < 2 THEN FALSE
    ELSE s[2] = ABSORB \/ s[2] = "G"

RECURSIVE SeedsOf(_)
SeedsOf(ss) ==
    IF ss = <<>> THEN <<>>
    ELSE (IF IsSeed(Head(ss)) THEN <<Head(ss)>> ELSE <<>>) \o SeedsOf(Tail(ss))

RECURSIVE Relax(_, _, _)
\* the for-loop over the predecessors of x, dx being dist[x]
Relax(ps, dx, st) ==
    IF ps = <<>> THEN st
    ELSE LET pred == Head(ps)[1]
         IN  IF st.dist[pred] > dx + 1
             THEN Relax(Tail(ps), dx,
                        [dist |-> [st.dist EXCEPT ![pred] = dx + 1],
                         q |-> Append(st.q, pred)])
             ELSE Relax(Tail(ps), dx, st)

\* Better, with <= for <
BetterOrEqual(d, best_d) == d <= best_d

\* d < best_d
Better(d, best_d) == d < best_d

RECURSIVE BestAction(_, _, _, _, _, _)
\* the loop over tie_break of step 4
BestAction(mdp, s, tb, d, best_a, best_d) ==
    IF tb = <<>> THEN best_a
    ELSE LET a == Head(tb)
             ns == _most_likely_successor(mdp, s, a)
             dn == IF ns \in DOMAIN d THEN d[ns] ELSE INF
         IN  IF a \in Range(actions(mdp, s)) /\ ns # NoSuccessor
                /\ Better(dn, best_d)
             THEN BestAction(mdp, s, Tail(tb), d, a, dn)
             ELSE BestAction(mdp, s, Tail(tb), d, best_a, best_d)

\* best_a, or tie_break[0] when the loop left it None
ChosenAction(mdp, s, tb, d) ==
    LET best_a == BestAction(mdp, s, tb, d, "None", INF)
    IN  IF best_a = "None" THEN tb[1] ELSE best_a

_decision(mdp, tb, ch, s) ==
    IF IsTerminal(mdp, s) THEN ABSORB
    ELSE IF s \in DOMAIN ch THEN ch[s] ELSE tb[1]

BuildPreds ==
    /\ pc = "build_preds"
    /\ _states' = out
    /\ _preds' = AddEdges(AllEdges(call.mdp, out),
                         [s \in Range(out) |-> <<>>])
    /\ pc' = "build_seeds"
    /\ UNCHANGED <<call, cont, enumVars, _dist, q, _choice, chainVars,
                   evalVars, result>>

BuildSeeds ==
    /\ pc = "build_seeds"
    /\ _dist' = [s \in Range(_states) |-> IF IsSeed(s) THEN 0 ELSE INF]
    /\ q' = SeedsOf(_states)
    /\ pc' = "bfs"
    /\ UNCHANGED <<call, cont, enumVars, _states, _preds, _choice, chainVars,
                   evalVars, result>>

BfsStep ==
    /\ pc = "bfs"
    /\ q # <<>>
    /\ LET x == Head(q)
           st == Relax(IF x \in DOMAIN _preds THEN _preds[x] ELSE <<>>,
                       _dist[x], [dist |-> _dist, q |-> Tail(q)])
       IN  /\ _dist' = st.dist
           /\ q' = st.q
    /\ UNCHANGED <<call, pc, cont, enumVars, _states, _preds, _choice,
                   chainVars, evalVars, result>>

\* the last step of _build; MyPolicy(...) then returns, to the client or to
\* run, which goes on to its own enumerate_states call
Choose ==
    /\ pc = "bfs"
    /\ q = <<>>
    /\ _choice' = [s \in {x \in Range(_states) : ~IsTerminal(call.mdp, x)} |->
                     ChosenAction(call.mdp, s, call.tie_break, _dist)]
    /\ IF call.fn = "run"
       THEN pc' = "enum_begin" /\ cont' = "chain_begin" /\ result' = result
       ELSE pc' = "done" /\ cont' = cont /\ result' = [kind |-> "return"]
    /\ UNCHANGED <<call, enumVars, _states, _preds, _dist, q, chainVars,
                   evalVars>>

------------------------------------------------------------------------------
(* build_policy_Pr *)

\* a policy: callable (decision), and with action_probs when stochastic
PointPolicies ==
    {[stochastic |-> FALSE, decision |-> [c \in Cells |-> a],
      action_probs |-> [c \in Cells |-> <<>>]] : a \in {UP, RIGHT, DOWN}}

\* the dicts action_probs may return, as their items in order
ProbMenu ==
    {<<>>,
     << <<UP, Rat(1, 2)>>, <<RIGHT, Rat(1, 2)>> >>,
     << <<UP, Zero>>, <<RIGHT, One>> >>,
     << <<RIGHT, Rat(1, 2)>>, <<UP, Rat(-1, 2)>> >>}

StochasticPolicies ==
    {[stochastic |-> TRUE, decision |-> [c \in Cells |-> UP],
      action_probs |-> [c \in Cells |-> d]] : d \in ProbMenu}

\* policy(s), the policy being MyPolicy inside run
PolicyAction(s) ==
    IF call.fn = "run" THEN _decision(call.mdp, call.tie_break, _choice, s)
    ELSE call.policy.decision[s]

\* ap(s) if callable(ap) else None; an empty dict and None are both falsy
PolicyProbs(s) ==
    IF call.fn # "run" /\ call.policy.stochastic
    THEN call.policy.action_probs[s] ELSE <<>>

\* stands for the KeyError of an idx[...] lookup, no row being empty
KeyError == <<>>

\* idx[s]; 0 when s is not enumerated
Index(ss, s) ==
    IF \E j \in DOMAIN ss : ss[j] = s
    THEN CHOOSE j \in DOMAIN ss : ss[j] = s /\ \A l \in DOMAIN ss : ss[l] = s => l <= j
    ELSE 0

ZeroRow(n) == [j \in 1..n |-> Zero]

RECURSIVE AddDist(_, _, _, _)
\* P[i, idx[ns]] += pa * p for every (ns, p) of a distribution; KeyError
\* when a successor is not enumerated
AddDist(ds, pa, row, ss) ==
    IF ds = <<>> \/ row = KeyError THEN row
    ELSE LET j == Index(ss, Head(ds)[1])
         IN  IF j = 0 THEN KeyError
             ELSE AddDist(Tail(ds), pa,
                          [row EXCEPT ![j] = RAdd(@, RMul(pa, Head(ds)[2]))], ss)

RECURSIVE AddProbs(_, _, _, _, _)
\* the loop over probs.items()
AddProbs(mdp, s, ps, row, ss) ==
    IF ps = <<>> \/ row = KeyError THEN row
    ELSE LET a == Head(ps)[1]
             pa == Head(ps)[2]
         IN  IF pa.n <= 0 THEN AddProbs(mdp, s, Tail(ps), row, ss)
             ELSE AddProbs(mdp, s, Tail(ps),
                           AddDist(transition(mdp, s, a), pa, row, ss), ss)

\* NeedsRescale, rescaling only a row that sums to more than 1
NeedsRescaleAbove(rs) ==
    RLess(One, rs) /\ RGreaterInv(RAbs(RSub(rs, One)), TolInv)

\* rs > 0 and abs(rs - 1.0) > 1e-8
NeedsRescale(rs) == rs.n > 0 /\ RGreaterInv(RAbs(RSub(rs, One)), TolInv)

\* the row after the renormalisation step
Normalised(row) ==
    LET rs == RSum(row)
    IN  IF NeedsRescale(rs) THEN [j \in DOMAIN row |-> RDiv(row[j], rs)]
        ELSE row

\* the row of an absorb-only state
AbsorbRow(ss, s) ==
    LET j == Index(ss, AbsorbingState)
    IN  IF j = 0 THEN KeyError
        ELSE [ZeroRow(Len(ss)) EXCEPT ![j] = One]

\* the row of a state with a movement action, as accumulated
RawRow(mdp, ss, s) ==
    LET probs == PolicyProbs(s)
    IN  IF probs # <<>>
        THEN AddProbs(mdp, s, probs, ZeroRow(Len(ss)), ss)
        ELSE AddDist(transition(mdp, s, PolicyAction(s)), One,
                     ZeroRow(Len(ss)), ss)

\* the row of state s: its accumulation and renormalisation
RowOf(mdp, ss, s) ==
    IF actions(mdp, s) = <<ABSORB>> THEN AbsorbRow(ss, s)
    ELSE LET raw == RawRow(mdp, ss, s)
         IN  IF raw = KeyError THEN raw ELSE Normalised(raw)

Dot(xs, ys) == RSum([j \in DOMAIN xs |-> RMul(xs[j], ys[j])])

ChainBegin ==
    /\ pc = "chain_begin"
    /\ states' = out
    /\ P' = <<>>
    /\ i' = 1
    /\ pc' = "chain_row"
    /\ UNCHANGED <<call, cont, enumVars, policyVars, r, evalVars, result>>

\* one iteration of the loop over states
ChainRow ==
    /\ pc = "chain_row"
    /\ i <= Len(states)
    /\ LET row == RowOf(call.mdp, states, states[i])
       IN  IF row = KeyError
           THEN /\ pc' = "done"
                /\ result' = [kind |-> "raise", exc |-> "KeyError"]
                /\ UNCHANGED <<P, i>>
           ELSE /\ P' = Append(P, row)
                /\ i' = i + 1
                /\ UNCHANGED <<pc, result>>
    /\ UNCHANGED <<call, cont, enumVars, policyVars, states, r, evalVars>>

\* r = P @ rew, and the return
ChainReturn ==
    /\ pc = "chain_row"
    /\ i > Len(states)
    /\ r' = LET rew == [j \in DOMAIN states |->
                          Rat(reward(call.mdp, states[j]), 1)]
            IN  [j \in DOMAIN states |-> Dot(P[j], rew)]
    /\ IF call.fn = "run"
       THEN pc' = "dispatch" /\ result' = result
       ELSE pc' = "done" /\ result' = [kind |-> "return"]
    /\ UNCHANGED <<call, cont, enumVars, policyVars, states, i, P, evalVars>>

------------------------------------------------------------------------------
(* exact_policy_evaluation *)

\* M without its first row and its column j
Minor(M, j) ==
    [a \in 1..(Len(M) - 1) |->
       [b \in 1..(Len(M) - 1) |-> M[a + 1][IF b < j THEN b ELSE b + 1]]]

RECURSIVE RDet(_)
\* the determinant, expanded along the first row
RDet(M) ==
    IF Len(M) = 0 THEN One
    ELSE RSum([j \in 1..Len(M) |->
                 IF M[1][j] = Zero THEN Zero
                 ELSE RMul(IF j % 2 = 1 THEN M[1][j] ELSE RNeg(M[1][j]),
                           RDet(Minor(M, j)))])

\* A = I - gamma * P
BellmanMatrix(PP, gamma) ==
    [a \in DOMAIN PP |->
       [b \in DOMAIN PP |->
          RSub(IF a = b THEN One ELSE Zero, RMul(gamma, PP[a][b]))]]

\* np.linalg.solve(A, b) in exact arithmetic: "LinAlgError" when A is
\* singular, else the solution, by Cramer's rule
LinalgSolve(A, b) ==
    LET d == RDet(A)
    IN  IF d = Zero THEN <<>>
        ELSE [c \in DOMAIN A |->
                RDiv(RDet([a \in DOMAIN A |->
                             [j \in DOMAIN A |->
                                IF j = c THEN b[a] ELSE A[a][j]]]), d)]

Gamma == call.gamma

ExactEval ==
    /\ pc = "exact"
    /\ LET sol == LinalgSolve(BellmanMatrix(P, Gamma), r)
       IN  IF sol = <<>>
           THEN /\ pc' = "done"
                /\ result' = [kind |-> "raise", exc |-> "LinAlgError"]
                /\ v' = v
           ELSE /\ v' = sol
                /\ pc' = "fitness"
                /\ result' = result
    /\ UNCHANGED <<call, cont, enumVars, policyVars, chainVars, k, delta>>

------------------------------------------------------------------------------
(* iterative_policy_evaluation *)

\* 1 / 1e-6, the default eps
DefaultEpsInv == 1000000

\* the default max_iters
DefaultMaxIters == 100000

\* run passes neither eps nor max_iters
Eps == IF call.fn = "run" THEN Rat(1, DefaultEpsInv) ELSE call.eps

MaxItersArg == IF call.fn = "run" THEN DefaultMaxIters ELSE call.max_iters

\* v_new = r + gamma * (P @ v)
bellman_update(vv, PP, rr, gamma) ==
    [a \in DOMAIN PP |-> RAdd(rr[a], RMul(gamma, Dot(PP[a], vv)))]

RECURSIVE RMaxOf(_)
RMaxOf(xs) == IF Len(xs) = 1 THEN xs[1] ELSE RMax(xs[1], RMaxOf(Tail(xs)))

\* np.max(np.abs(v_new - v))
StepNorm(v_new, vv) ==
    RMaxOf([a \in DOMAIN vv |-> RAbs(RSub(v_new[a], vv[a]))])

\* the stopping threshold
Thresh(gamma, eps) ==
    IF gamma = One THEN eps
    ELSE RDiv(RMul(eps, RSub(One, gamma)), gamma)

\* Converged, with <= for <
ConvergedOrEqual(d, gamma, eps) == ~RLess(Thresh(gamma, eps), d)

\* delta < thresh
Converged(d, gamma, eps) == RLess(d, Thresh(gamma, eps))

IterBegin ==
    /\ pc = "iter_begin"
    /\ v' = [a \in DOMAIN P |-> Zero]
    /\ k' = 0
    /\ pc' = "iter_loop"
    /\ UNCHANGED <<call, cont, enumVars, policyVars, chainVars, delta, result>>

\* one pass of the for-loop, with its break
IterStep ==
    /\ pc = "iter_loop"
    /\ k < MaxItersArg
    /\ LET v_new == bellman_update(v, P, r, Gamma)
           d == StepNorm(v_new, v)
       IN  /\ delta' = d
           /\ v' = v_new
           /\ k' = k + 1
           /\ pc' = IF Converged(d, Gamma, Eps) THEN "iter_return"
                    ELSE "iter_loop"
    /\ UNCHANGED <<call, cont, enumVars, policyVars, chainVars, result>>

\* return v, after the break or after max_iters passes
IterReturn ==
    /\ \/ pc = "iter_return"
       \/ pc = "iter_loop" /\ k >= MaxItersArg
    /\ IF call.fn = "run"
       THEN pc' = "fitness" /\ result' = result
       ELSE pc' = "done" /\ result' = [kind |-> "return", v |-> v]
    /\ UNCHANGED <<call, cont, enumVars, policyVars, chainVars, evalVars>>

------------------------------------------------------------------------------
(* run *)

\* the if / elif / else over method, after the chain is built
Dispatch ==
    /\ pc = "dispatch"
    /\ IF call.method = "exact" THEN pc' = "exact" /\ result' = result
       ELSE IF call.method = "iterative"
            THEN pc' = "iter_begin" /\ result' = result
       ELSE pc' = "done" /\ result' = [kind |-> "raise", exc |-> "ValueError"]
    /\ UNCHANGED <<call, cont, enumVars, policyVars, chainVars, evalVars>>

\* f_pi = float(v[0]); return pi, v, f_pi
RunReturn ==
    /\ pc = "fitness"
    /\ pc' = "done"
    /\ result' = [kind |-> "return", pi |-> _choice, v |-> v, f_pi |-> v[1]]
    /\ UNCHANGED <<call, cont, enumVars, policyVars, chainVars, evalVars>>

------------------------------------------------------------------------------
(* The calls a client makes *)

\* the cap on the max_iters a client passes
MaxIters == 3

Gammas == {Rat(1, 2), One}

Methods == {"exact", "iterative", "bogus"}

NoMdp == [cell |-> <<>>, absorb_to |-> "absorbing", hole_reward |-> 0]

NoPolicy == [stochastic |-> FALSE, decision |-> <<>>, action_probs |-> <<>>]

Call(fn, mdp, tb, policy, gamma, method, eps, max_iters) ==
    [fn |-> fn, mdp |-> mdp, tie_break |-> tb, policy |-> policy,
     gamma |-> gamma, method |-> method, eps |-> eps, max_iters |-> max_iters]

PolicyCalls ==
    {Call("MyPolicy", m, tb, NoPolicy, One, "", Zero, 0) :
       m \in PolicyMdps, tb \in TieBreaks}

ChainCalls ==
    {Call("build_policy_Pr", m, DefaultTieBreak, pi, One, "", Zero, 0) :
       m \in ChainMdps, pi \in PointPolicies \cup StochasticPolicies}

RunCalls ==
    {Call("run", m, DefaultTieBreak, NoPolicy, g, me, Zero, 0) :
       m \in RunMdps, g \in Gammas, me \in Methods}

IterCalls ==
    {Call("iterative_policy_evaluation", NoMdp, DefaultTieBreak, NoPolicy, g,
          "", e, mi) :
       g \in Gammas, e \in {Rat(1, 4), Rat(1, DefaultEpsInv)},
       mi \in 0..MaxIters}

\* the rows of the matrices passed to the evaluator directly
RowMenu == {<<One, Zero>>, <<Zero, One>>, <<Rat(1, 2), Rat(1, 2)>>, <<Zero, Zero>>}

RewardMenu == {<<Zero, Zero>>, <<One, Zero>>, <<One, Rat(-1, 1)>>}

EnumCalls ==
    {Call("enumerate_states", m, DefaultTieBreak, NoPolicy, One, "", Zero, 0) :
       m \in Mdps(CellConfigs(ActMenu, DistMenu), {"absorbing", "self"}, {0})}

\* the state as the call begins
Begin(calls) ==
    /\ call \in calls
    /\ IF call.fn = "iterative_policy_evaluation"
       THEN /\ pc = "iter_begin"
            /\ cont = "done"
            /\ P \in [1..2 -> RowMenu]
            /\ r \in RewardMenu
       ELSE /\ pc = "enum_begin"
            /\ cont = IF call.fn \in {"MyPolicy", "run"} THEN "build_preds"
                      ELSE IF call.fn = "build_policy_Pr" THEN "chain_begin"
                      ELSE "done"
            /\ P = <<>>
            /\ r = <<>>
    /\ seen = {}
    /\ out = <<>>
    /\ stk = <<>>
    /\ _states = <<>>
    /\ _preds = <<>>
    /\ _dist = <<>>
    /\ q = <<>>
    /\ _choice = <<>>
    /\ states = <<>>
    /\ i = 0
    /\ v = <<>>
    /\ k = 0
    /\ delta = Zero
    /\ result = [kind |-> "none"]

Init == Begin(PolicyCalls \cup ChainCalls \cup RunCalls \cup IterCalls)

Next ==
    \/ EnumBegin
    \/ EnumStep
    \/ EnumReturn
    \/ BuildPreds
    \/ BuildSeeds
    \/ BfsStep
    \/ Choose
    \/ ChainBegin
    \/ ChainRow
    \/ ChainReturn
    \/ Dispatch
    \/ ExactEval
    \/ IterBegin
    \/ IterStep
    \/ IterReturn
    \/ RunReturn

Spec == Init /\ [][Next]_vars

\* a call of enumerate_states alone; the loop is not suspended, so a step that
\* can be taken is taken
EnumInit == Begin(EnumCalls)

EnumNext ==
    \/ EnumBegin
    \/ EnumStep
    \/ EnumReturn

EnumSpec == EnumInit /\ [][EnumNext]_vars /\ WF_vars(EnumNext)

\* a call of iterative_policy_evaluation alone
IterInit == Begin(IterCalls)

IterNext ==
    \/ IterBegin
    \/ IterStep
    \/ IterReturn

IterSpec == IterInit /\ [][IterNext]_vars

------------------------------------------------------------------------------
(* The state enumerator *)

\* the states one action of s may lead to
Successors(mdp, s) ==
    UNION {{e[1] : e \in Range(transition(mdp, s, a))} :
             a \in Range(actions(mdp, s))}

RECURSIVE ReachFrom(_, _)
ReachFrom(mdp, S) ==
    LET N == S \cup UNION {Successors(mdp, s) : s \in S}
    IN  IF N = S THEN S ELSE ReachFrom(mdp, N)

Reachable(mdp) == ReachFrom(mdp, {start_state(mdp)})

\* o starts with the start state, holds every reachable state once and no
\* other state, and every later state is a successor of an earlier one
EnumeratedInDiscoveryOrder(o, mdp) ==
    /\ Len(o) >= 1
    /\ o[1] = start_state(mdp)
    /\ \A a, b \in DOMAIN o : a # b => o[a] # o[b]
    /\ Range(o) = Reachable(mdp)
    /\ \A j \in 2..Len(o) : \E l \in 1..(j - 1) : o[j] \in Successors(mdp, o[l])

\* C1: enumerate_states terminates, and what it returns starts with the
\* start state and lists every reachable state exactly once, in the order
\* of discovery, and nothing else
C1_EnumerateTerminatesComplete ==
    <>(/\ pc = "done"
       /\ result.kind = "return"
       /\ EnumeratedInDiscoveryOrder(result.states, call.mdp))

\* the call returned all five states of an environment in which the second
\* cell leads back to the start
C1_Witness ==
    /\ call.fn = "enumerate_states"
    /\ pc = "done"
    /\ Len(result.states) = 5
    /\ StartState \in Successors(call.mdp, <<"c1", "F">>)

------------------------------------------------------------------------------
(* The graph policy *)

\* MyPolicy is constructed: step 4 has run
Constructed == call.fn \in {"MyPolicy", "run"} /\ _choice # <<>>

\* the reverse search has ended
Searched ==
    /\ call.fn \in {"MyPolicy", "run"}
    /\ \/ pc = "bfs" /\ q = <<>>
       \/ _choice # <<>>

NonTerminal(mdp) == {s \in Range(_states) : ~IsTerminal(mdp, s)}

Legal(mdp, s) == Range(actions(mdp, s))

\* the distance of the most likely successor of (s, a), infinite without one
SuccDist(mdp, s, a) ==
    LET ns == _most_likely_successor(mdp, s, a)
    IN  IF ns = NoSuccessor THEN INF ELSE _dist[ns]

MinSuccDist(mdp, s) ==
    CHOOSE m \in {SuccDist(mdp, s, a) : a \in Legal(mdp, s)} :
      \A a \in Legal(mdp, s) : m <= SuccDist(mdp, s, a)

\* a is legal in s and its successor is as near as any, and no action before
\* position p of the tie-break order is
FirstNearest(mdp, tb, s, p) ==
    /\ tb[p] \in Legal(mdp, s)
    /\ SuccDist(mdp, s, tb[p]) = MinSuccDist(mdp, s)
    /\ \A p2 \in 1..(p - 1) :
         ~(tb[p2] \in Legal(mdp, s)
           /\ SuccDist(mdp, s, tb[p2]) = MinSuccDist(mdp, s))

\* C4: the stored action of a non-terminal state is the first action of the
\* tie-break order, among the legal ones, whose most likely successor is at
\* the least distance, when that distance is finite; otherwise it is the
\* first action of the tie-break order; and construction raises nothing
C4_ChoiceIsFirstNearest ==
    Constructed =>
      /\ result.kind # "raise" \/ call.fn = "run"
      /\ DOMAIN _choice = NonTerminal(call.mdp)
      /\ \A s \in NonTerminal(call.mdp) :
           IF MinSuccDist(call.mdp, s) < INF
           THEN \E p \in DOMAIN call.tie_break :
                  /\ _choice[s] = call.tie_break[p]
                  /\ FirstNearest(call.mdp, call.tie_break, s, p)
           ELSE _choice[s] = call.tie_break[1]

\* a state with two legal actions, the first of the tie-break order leading
\* to the hole and the other to a cell one hop from the goal: the other is
\* stored
C4_Witness ==
    /\ Constructed
    /\ call.fn = "MyPolicy"
    /\ pc = "done"
    /\ \E s \in NonTerminal(call.mdp) :
         /\ Cardinality(Legal(call.mdp, s)) = 2
         /\ call.tie_break[1] \in Legal(call.mdp, s)
         /\ _most_likely_successor(call.mdp, s, call.tie_break[1]) = Hole
         /\ _choice[s] # call.tie_break[1]
         /\ MinSuccDist(call.mdp, s) = 1

\* the most-likely-successor edges the construction records
MlsEdge(mdp, s, t) ==
    /\ ~IsTerminal(mdp, s)
    /\ \E a \in Legal(mdp, s) : _most_likely_successor(mdp, s, a) = t

\* goal-tagged or absorbing
GoalOrAbsorbing(s) == s = AbsorbingState \/ s[2] = "G"

RECURSIVE HopsFrom(_, _, _)
\* the least n such that level n of the backward closure of the seeds holds
\* s; infinite when the closure ends without s
HopsFrom(mdp, level, s) ==
    IF s \in level.set THEN level.n
    ELSE LET next == level.set \cup
                       {x \in Range(_states) :
                          \E t \in level.set : MlsEdge(mdp, x, t)}
         IN  IF next = level.set THEN INF
             ELSE HopsFrom(mdp, [set |-> next, n |-> level.n + 1], s)

Hops(mdp, s) ==
    HopsFrom(mdp, [set |-> {x \in Range(_states) : GoalOrAbsorbing(x)},
                   n |-> 0], s)

\* C5: after the reverse search every seed is at distance 0, every state is
\* at its least number of hops to a seed along most-likely-successor edges,
\* infinite exactly when no seed can be reached, and along every recorded
\* edge d(predecessor) <= d(successor) + 1
C5_DistIsShortestHops ==
    Searched =>
      /\ DOMAIN _dist = Range(_states)
      /\ \A s \in Range(_states) :
           /\ GoalOrAbsorbing(s) => _dist[s] = 0
           /\ _dist[s] = Hops(call.mdp, s)
      /\ \A x \in DOMAIN _preds :
           \A e \in Range(_preds[x]) : _dist[e[1]] <= _dist[x] + 1

\* the start is two hops from the goal through the other cell, a relaxed
\* distance, and the hole is at infinity
C5_Witness ==
    /\ Searched
    /\ call.fn = "MyPolicy"
    /\ Hole \in DOMAIN _dist
    /\ _dist[Hole] = INF
    /\ _dist[StartState] = 2
    /\ _dist[<<"c1", "F">>] = 1

\* the probability of moving to t under (s, a), as build_policy_Pr adds it up
TotalProb(mdp, s, a, t) ==
    LET d == transition(mdp, s, a)
    IN  RSum([j \in DOMAIN d |-> IF d[j][1] = t THEN d[j][2] ELSE Zero])

\* C9: the most likely successor recorded for (s, a) has the highest
\* transition probability among the successors of (s, a), a successor listed
\* more than once counting with its whole probability
C9_SuccessorHasHighestProbability ==
    (call.fn \in {"MyPolicy", "run"} /\ _preds # <<>>) =>
      \A x \in DOMAIN _preds :
        \A e \in Range(_preds[x]) :
          \A t \in Successors(call.mdp, e[1]) :
            ~RLess(TotalProb(call.mdp, e[1], e[2], x),
                   TotalProb(call.mdp, e[1], e[2], t))

\* C10: the action MyPolicy returns for a reachable state is one of the
\* legal actions of the state
C10_DecisionIsLegal ==
    Constructed =>
      \A s \in Range(_states) :
        _decision(call.mdp, call.tie_break, _choice, s) \in Legal(call.mdp, s)

------------------------------------------------------------------------------
(* The chain builder *)

\* rows of P that build_policy_Pr has written
Built == call.fn \in {"build_policy_Pr", "run"}

UnitRow(n, j) == [ZeroRow(n) EXCEPT ![j] = One]

\* C2: the row of a state whose only legal action is absorb is a self-loop:
\* P[i,i] = 1 and P[i,j] = 0 elsewhere
C2_AbsorbRowIsSelfLoop ==
    Built =>
      \A j \in DOMAIN P :
        actions(call.mdp, states[j]) = <<ABSORB>> =>
          P[j] = UnitRow(Len(states), j)

\* |x - 1| <= 1e-8
WithinTolOfOne(x) == ~RGreaterInv(RAbs(RSub(x, One)), TolInv)

\* what was accumulated into the row of states[j] before any rescaling
RawSum(j) ==
    IF actions(call.mdp, states[j]) = <<ABSORB>> THEN One
    ELSE RSum(RawRow(call.mdp, states, states[j]))

\* C3: every row of P sums to 1 within 1e-8, except the rows whose raw sum
\* is exactly 0, which are all zeros
C3_RowsSumToOne ==
    Built =>
      \A j \in DOMAIN P :
        IF RawSum(j) = Zero THEN P[j] = ZeroRow(Len(states))
        ELSE WithinTolOfOne(RSum(P[j]))

\* build_policy_Pr returned a P with a row that was rescaled from a raw sum
\* below 1, a row left at exactly the tolerance from 1, and a zero row
C3_Witness ==
    /\ call.fn = "build_policy_Pr"
    /\ pc = "done"
    /\ result.kind = "return"
    /\ \E j \in DOMAIN P :
         /\ RLess(RawSum(j), One)
         /\ RawSum(j) # Zero
         /\ RSum(P[j]) = One
    /\ \E j \in DOMAIN P : RawSum(j) = Zero \/ RSum(P[j]) = Rat(TolInv + 1, TolInv)

------------------------------------------------------------------------------
(* The orchestrator and the evaluators *)

\* C6: with a method other than "exact" and "iterative", run ends with the
\* ValueError and nothing else: no other failure, no result
C6_InvalidMethodEndsInValueError ==
    (call.fn = "run" /\ call.method \notin {"exact", "iterative"}
       /\ pc = "done") =>
      result = [kind |-> "raise", exc |-> "ValueError"]

RECURSIVE Iterate(_)
\* v_n: n Bellman updates of the zero vector
Iterate(n) ==
    IF n = 0 THEN [a \in DOMAIN P |-> Zero]
    ELSE bellman_update(Iterate(n - 1), P, r, Gamma)

\* update n, from v_(n-1) to v_n, has a step norm strictly below the threshold
StepBelow(n) ==
    RLess(StepNorm(Iterate(n), Iterate(n - 1)), Thresh(Gamma, Eps))

\* at most max_iters updates are made; v is v_k; no update before the last
\* was below the threshold; the loop goes on only after an update that was
\* not below it and is left at once after one that was; what is returned is
\* v_k, and nothing is raised
IterLoopInvariant ==
    /\ k <= MaxItersArg
    /\ pc \in {"iter_loop", "iter_return", "done"} =>
         /\ v = Iterate(k)
         /\ \A n \in 1..(k - 1) : ~StepBelow(n)
    /\ (pc = "iter_loop" /\ k > 0) => ~StepBelow(k)
    /\ pc = "iter_return" => (k > 0 /\ StepBelow(k))
    /\ pc = "done" =>
         /\ result = [kind |-> "return", v |-> Iterate(k)]
         /\ k = MaxItersArg \/ (k > 0 /\ StepBelow(k))

\* a step taken inside the loop is one more update or the return, and a call
\* that has returned takes no step
IterProgress ==
    /\ pc = "iter_loop" => (k' = k + 1 \/ pc' = "done")
    /\ pc = "iter_return" => pc' = "done"
    /\ pc # "done"

\* C7: iterative_policy_evaluation terminates after at most max_iters
\* updates, stops right after the first update whose step norm is strictly
\* below the threshold, and returns the last vector computed, raising nothing
C7_IterativeStopsAndReturnsLast ==
    []IterLoopInvariant /\ [][IterProgress]_vars

\* the cap was reached after two or more updates, none of them below the
\* threshold, and the last vector was returned
C7_Witness ==
    /\ call.fn = "iterative_policy_evaluation"
    /\ pc = "done"
    /\ k = call.max_iters
    /\ k >= 2
    /\ ~StepBelow(k)
    /\ result.v = v

\* the states that state a can move to in one step of the chain
ChainSucc(PP, a) == {b \in DOMAIN PP : PP[a][b] # Zero}

RECURSIVE ChainReach(_, _)
ChainReach(PP, S) ==
    LET N == S \cup UNION {ChainSucc(PP, a) : a \in S}
    IN  IF N = S THEN S ELSE ChainReach(PP, N)

\* every state reaches an absorb-only state that loops on itself with
\* probability 1
Proper(PP) ==
    \A a \in DOMAIN PP :
      \E b \in ChainReach(PP, {a}) :
        PP[b][b] = One /\ actions(call.mdp, states[b]) = <<ABSORB>>

\* (I - gamma P) x = r
SolvesBellman(x) ==
    \A a \in DOMAIN P :
      Dot(BellmanMatrix(P, Gamma)[a], x) = r[a]

\* C8: with gamma = 1, exact evaluation of a proper chain built by
\* build_policy_Pr does not fail, and returns v with (I - P) v = r
C8_ExactAtGammaOneOnProperChain ==
    (/\ call.fn = "run"
     /\ call.method = "exact"
     /\ Gamma = One
     /\ pc = "done"
     /\ r # <<>>
     /\ Proper(P)) =>
      (result.kind = "return" /\ SolvesBellman(result.v))

====
